---- MODULE Spec2Model ----
(***************************************************************************)
(* Cart / inventory consistency subsystem of the backend.                  *)
(*                                                                         *)
(* The database (Prisma) holds users, products, carts and cart items.      *)
(* Every cart request passes through the pipeline mounted in               *)
(* routes/cart.js: authenticate, then the route's validator (if any), then *)
(* the controller.  One action of this module is one whole request;       *)
(* request is the request handled last, response the response it got.      *)
(*                                                                         *)
(* Money is counted in thousandths of a currency unit (mills), so 10.00 is *)
(* 10000 and one cent is 10.                                               *)
(***************************************************************************)
EXTENDS Integers, Sequences, FiniteSets, TLC

\* The fields of the records of this module; every record lists its fields
\* in this order.
FieldOrder ==
    <<[args |-> 0, authorization |-> 0, body |-> 0, cart |-> 0, cartId |-> 0,
       carts |-> 0, db |-> 0, error |-> 0, headers |-> 0, id |-> 0, isActive |-> 0,
       items |-> 0, kind |-> 0, message |-> 0, name |-> 0, nan |-> 0,
       nextCartId |-> 0, nextItemId |-> 0, none |-> 0, ok |-> 0, op |-> 0,
       owner |-> 0, params |-> 0, pc |-> 0, price |-> 0, product |-> 0, productId |-> 0, products |-> 0,
       quantity |-> 0, res |-> 0, role |-> 0, scheme |-> 0, status |-> 0,
       statusCode |-> 0, stock |-> 0, subtotal |-> 0, thumbnail |-> 0, title |-> 0,
       token |-> 0, totalItems |-> 0, totalPrice |-> 0, user |-> 0, userId |-> 0,
       users |-> 0, v |-> 0]>>

VARIABLES users, products, carts, items, nextCartId, nextItemId, request, response,
          procs, alone

vars == <<users, products, carts, items, nextCartId, nextItemId, request, response,
          procs, alone>>

(***************************************************************************)
(* Bounds and input sets                                                   *)
(***************************************************************************)
\* Largest stock a product is given.
MaxStock == 2

\* Accounts in the user table.
Users == {1, 2}

\* Rows of the product table, and ids that have no row.
Products == {1, 2}
MissingProducts == {3}

\* Product rows that the catalogue administrator edits in the model.
EditedProducts == {1}

\* Upper limit of the quantity validators.
MaxQuantity == 100

\* The account with role ADMIN, and the accounts it manages in the model.
Admins == {3}
ManagedUsers == {2}

\* Prices in mills that the catalogue administrator sets.
PriceEdits == {14, 26}

(***************************************************************************)
(* Errors (utils/errors.js).  args holds the numbers interpolated into the *)
(* message.                                                                *)
(***************************************************************************)
AppError(name, statusCode, message, args) ==
    [args |-> args, message |-> message, name |-> name, statusCode |-> statusCode]

NotFoundError(resource) == AppError("NotFoundError", 404, resource \o " not found", <<>>)

ValidationError(message) == AppError("ValidationError", 400, message, <<>>)

BadRequestError(message, args) == AppError("BadRequestError", 400, message, args)

UnauthorizedError(message) == AppError("UnauthorizedError", 401, message, <<>>)

\* A thrown error reaches the client with the error's status code.
Fail(op, err) == [error |-> err, op |-> op, status |-> err.statusCode]

IsSuccess(r) == r.status \in {200, 201}

(***************************************************************************)
(* JavaScript numbers read from the route parameters                       *)
(***************************************************************************)
\* parseInt(req.params[name]): NaN when the route has no such parameter.
ParseIntParam(params, name) ==
    IF name \in DOMAIN params
    THEN [nan |-> FALSE, v |-> params[name]]
    ELSE [nan |-> TRUE, v |-> 0]

\* isNaN(x) || x < 1
IsNaNOrBelowOne(x) == x.nan \/ x.v < 1

(***************************************************************************)
(* The database                                                            *)
(***************************************************************************)
Database == [carts |-> carts, items |-> items, nextCartId |-> nextCartId,
             nextItemId |-> nextItemId, products |-> products, users |-> users]

\* Mutant: the cart is looked up without the owner.
CartFindUnique_AnyOwner(db, userId) == db.carts

\* prisma.cart.findUnique({ where: { userId } }): the matching rows (0 or 1).
CartFindUnique(db, userId) == {c \in db.carts : c.userId = userId}

\* prisma.cart.create({ data: { userId } })
CartCreate(db, userId) ==
    [db EXCEPT !.carts = @ \cup {[id |-> db.nextCartId, userId |-> userId]},
               !.nextCartId = @ + 1]

\* include: { items: true }
CartItemsOf(db, cartId) == {i \in db.items : i.cartId = cartId}

\* prisma.product.findUnique({ where: { id } }): the matching rows (0 or 1).
ProductFindUnique(db, id) ==
    IF id \in DOMAIN db.products THEN {db.products[id]} ELSE {}

\* Mutant: the insert also takes the units out of the product's stock.
CartItemCreate_TakesStock(db, cartId, productId, quantity) ==
    [db EXCEPT !.items = @ \cup {[cartId |-> cartId, id |-> db.nextItemId,
                                  productId |-> productId, quantity |-> quantity]},
               !.nextItemId = @ + 1,
               !.products[productId].stock = @ - quantity]

\* prisma.cartItem.create({ data: { cartId, productId, quantity } })
CartItemCreate(db, cartId, productId, quantity) ==
    [db EXCEPT !.items = @ \cup {[cartId |-> cartId, id |-> db.nextItemId,
                                  productId |-> productId, quantity |-> quantity]},
               !.nextItemId = @ + 1]

\* prisma.cartItem.update({ where: { id }, data: { quantity } })
CartItemUpdate(db, id, quantity) ==
    [db EXCEPT !.items = {IF i.id = id THEN [i EXCEPT !.quantity = quantity] ELSE i
                          : i \in @}]

\* prisma.cartItem.delete({ where: { id } })
CartItemDelete(db, id) == [db EXCEPT !.items = {i \in @ : i.id # id}]

\* prisma.cartItem.deleteMany({ where: { cartId } })
CartItemDeleteMany(db, cartId) == [db EXCEPT !.items = {i \in @ : i.cartId # cartId}]

\* Mutant: the comparison never matches.
FindItem_NoMatch(cartItems, productId) == {}

\* cart.items.find((item) => item.productId === productId): the first match.
FindItem(cartItems, productId) ==
    LET matches == {i \in cartItems : i.productId = productId}
    IN  IF matches = {} THEN {}
        ELSE {CHOOSE i \in matches : \A j \in matches : i.id <= j.id}

(***************************************************************************)
(* The cart view                                                           *)
(***************************************************************************)
\* The product columns selected by getCart and by the mutating handlers.
GetCartSelect == {"id", "title", "price", "thumbnail", "stock", "isActive"}
MutationSelect == {"id", "title", "price", "thumbnail", "stock"}

\* item.subtotal = Number(item.product.price) * item.quantity
Subtotal(price, quantity) == price * quantity

\* Mutant: the subtotal is computed from a price of 0.014 kept from the first
\* read, not from the product row.
EnrichItem_CachedPrice(db, item, select) ==
    [cartId |-> item.cartId, id |-> item.id,
     product |-> [f \in select |-> db.products[item.productId][f]],
     productId |-> item.productId, quantity |-> item.quantity,
     subtotal |-> Subtotal(14, item.quantity)]

\* One element of enrichedItems.
EnrichItem(db, item, select) ==
    [cartId |-> item.cartId, id |-> item.id,
     product |-> [f \in select |-> db.products[item.productId][f]],
     productId |-> item.productId, quantity |-> item.quantity,
     subtotal |-> Subtotal(db.products[item.productId].price, item.quantity)]

EnrichedItems(db, cartId, select) ==
    {EnrichItem(db, i, select) : i \in CartItemsOf(db, cartId)}

RECURSIVE SumQuantity(_)
\* enrichedItems.reduce((sum, item) => sum + item.quantity, 0)
SumQuantity(S) ==
    IF S = {} THEN 0
    ELSE LET i == CHOOSE x \in S : TRUE IN i.quantity + SumQuantity(S \ {i})

RECURSIVE SumSubtotal(_)
\* enrichedItems.reduce((sum, item) => sum + item.subtotal, 0)
SumSubtotal(S) ==
    IF S = {} THEN 0
    ELSE LET i == CHOOSE x \in S : TRUE IN i.subtotal + SumSubtotal(S \ {i})

\* parseFloat(x.toFixed(2)) on a non-negative amount in mills: the nearest
\* cent.  (No amount of the modelled prices lies exactly half-way.)
ToFixed2(x) == ((x + 5) \div 10) * 10

RECURSIVE SumRoundedSubtotal(_)
SumRoundedSubtotal(S) ==
    IF S = {} THEN 0
    ELSE LET i == CHOOSE x \in S : TRUE
         IN  ToFixed2(i.subtotal) + SumRoundedSubtotal(S \ {i})

\* Mutant: every subtotal is rounded before the sum.
TotalPrice_PerItem(enriched) == SumRoundedSubtotal(enriched)

\* parseFloat(totalPrice.toFixed(2))
TotalPrice(enriched) == ToFixed2(SumSubtotal(enriched))

\* The cart document of a response.
CartView(db, cart, select) ==
    LET enriched == EnrichedItems(db, cart.id, select)
    IN  [id |-> cart.id, items |-> enriched,
         totalItems |-> SumQuantity(enriched),
         totalPrice |-> TotalPrice(enriched), userId |-> cart.userId]

Success(op, status, message, view) ==
    [cart |-> view, message |-> message, op |-> op, status |-> status]

(***************************************************************************)
(* middleware: authenticate                                                *)
(***************************************************************************)
\* The Authorization headers a client sends.
Tokens == {[kind |-> "empty"], [kind |-> "invalid"]}
              \cup {[kind |-> "valid", userId |-> u] : u \in Users}

Headers == {[none |-> TRUE]}
              \cup {[authorization |-> [scheme |-> "Basic", token |-> [kind |-> "invalid"]]]}
              \cup {[authorization |-> [scheme |-> "Bearer", token |-> t]] : t \in Tokens}

BearerOf(u) == [authorization |-> [scheme |-> "Bearer", token |-> [kind |-> "valid", userId |-> u]]]

\* Mutant: a deactivated account is let through.
authenticate_NoActiveCheck(db, headers) ==
    IF "authorization" \notin DOMAIN headers
    THEN [error |-> UnauthorizedError("No authorization token provided"), ok |-> FALSE]
    ELSE IF headers.authorization.scheme # "Bearer"
    THEN [error |-> UnauthorizedError("Invalid authorization format. Use: Bearer <token>"),
          ok |-> FALSE]
    ELSE IF headers.authorization.token.kind = "empty"
    THEN [error |-> UnauthorizedError("No token provided"), ok |-> FALSE]
    ELSE IF headers.authorization.token.kind # "valid"
    THEN [error |-> UnauthorizedError("invalid token"), ok |-> FALSE]
    ELSE LET id == headers.authorization.token.userId
         IN  IF id \notin DOMAIN db.users
             THEN [error |-> UnauthorizedError("User no longer exists"), ok |-> FALSE]
             ELSE [ok |-> TRUE, user |-> [role |-> db.users[id].role, userId |-> id]]

\* Returns [ok |-> TRUE, user |-> req.user] or [error |-> e, ok |-> FALSE].
authenticate(db, headers) ==
    IF "authorization" \notin DOMAIN headers
    THEN [error |-> UnauthorizedError("No authorization token provided"), ok |-> FALSE]
    ELSE IF headers.authorization.scheme # "Bearer"
    THEN [error |-> UnauthorizedError("Invalid authorization format. Use: Bearer <token>"),
          ok |-> FALSE]
    ELSE IF headers.authorization.token.kind = "empty"
    THEN [error |-> UnauthorizedError("No token provided"), ok |-> FALSE]
    ELSE IF headers.authorization.token.kind # "valid"
    THEN [error |-> UnauthorizedError("invalid token"), ok |-> FALSE]
    ELSE LET id == headers.authorization.token.userId
         IN  IF id \notin DOMAIN db.users
             THEN [error |-> UnauthorizedError("User no longer exists"), ok |-> FALSE]
             ELSE IF ~db.users[id].isActive
             THEN [error |-> UnauthorizedError("Account is deactivated"), ok |-> FALSE]
             ELSE [ok |-> TRUE, user |-> [role |-> db.users[id].role, userId |-> id]]

\* authorize(...roles): the 403 response, or nothing when the role is allowed.
authorize(op, user, roles) ==
    IF user.role \notin roles
    THEN {[message |-> "Forbidden: You do not have permission to perform this action",
           op |-> op, status |-> 403]}
    ELSE {}

(***************************************************************************)
(* middleware: validators                                                  *)
(***************************************************************************)
\* isInt({ min }) on a body field; a missing field is not an integer.
IsIntMin(body, name, min) == name \in DOMAIN body /\ body[name] >= min

\* isInt({ min, max }) on a body field.
IsIntMinMax(body, name, min, max) == IsIntMin(body, name, min) /\ body[name] <= max

\* Mutant: the quantity check starts at 0.
validateCartItem_AllowsZero(body) ==
    (IF IsIntMin(body, "productId", 1) THEN <<>>
     ELSE <<"Product ID must be a positive integer">>)
    \o (IF IsIntMinMax(body, "quantity", 0, MaxQuantity) THEN <<>>
        ELSE <<"Quantity must be between 1 and 100">>)

\* validateCartItem: the messages of the failed checks, in order.
validateCartItem(body) ==
    (IF IsIntMin(body, "productId", 1) THEN <<>>
     ELSE <<"Product ID must be a positive integer">>)
    \o (IF IsIntMinMax(body, "quantity", 1, MaxQuantity) THEN <<>>
        ELSE <<"Quantity must be between 1 and 100">>)

\* validateQuantityUpdate: the messages of the failed checks.
validateQuantityUpdate(body) ==
    IF IsIntMinMax(body, "quantity", 1, MaxQuantity) THEN <<>>
    ELSE <<"Quantity must be between 1 and 100">>

\* errors.array().map((err) => err.msg).join(", ")
JoinMessages(msgs) ==
    IF Len(msgs) = 1 THEN msgs[1] ELSE msgs[1] \o ", " \o msgs[2]

(***************************************************************************)
(* controllers/cartController.js                                           *)
(* A handler maps the database and the request to the database afterwards  *)
(* and the response.                                                       *)
(***************************************************************************)
Out(db, r) == [db |-> db, res |-> r]

\* The owner key each handler looks the cart up with.
GetCartUserId(req) == [nan |-> FALSE, v |-> req.user.userId]
AddToCartUserId(req) == [nan |-> FALSE, v |-> req.user.userId]
UpdateCartItemUserId(req) == ParseIntParam(req.params, "userId")
RemoveFromCartUserId(req) == ParseIntParam(req.params, "userId")
ClearCartUserId(req) == ParseIntParam(req.params, "userId")

\* Mutant: the cart is created without looking for an existing one.
getCart_AlwaysCreates(db, req) ==
    LET userId == GetCartUserId(req).v
        db1 == CartCreate(db, userId)
        cart == [id |-> db.nextCartId, userId |-> userId]
    IN  Out(db1, Success("getCart", 200, "", CartView(db1, cart, GetCartSelect)))

getCart(db, req) ==
    LET userId == GetCartUserId(req).v
        db1 == IF CartFindUnique(db, userId) = {} THEN CartCreate(db, userId) ELSE db
        cart == CHOOSE c \in CartFindUnique(db1, userId) : TRUE
    IN  Out(db1, Success("getCart", 200, "", CartView(db1, cart, GetCartSelect)))

\* const { productId, quantity = 1 } = req.body
AddQuantity(body) == IF "quantity" \in DOMAIN body THEN body.quantity ELSE 1

\* Mutant: the isActive check is missing.
AddProductError_NoActiveCheck(productRows, quantity) ==
    IF productRows = {} THEN {NotFoundError("Product")}
    ELSE LET product == CHOOSE p \in productRows : TRUE
         IN  IF product.stock < 1
             THEN {BadRequestError("Product is out of stock", <<>>)}
             ELSE IF product.stock < quantity
             THEN {BadRequestError("Only N items available", <<product.stock>>)}
             ELSE {}

\* The checks of the product row before the cart is touched.
AddProductError(productRows, quantity) ==
    IF productRows = {} THEN {NotFoundError("Product")}
    ELSE LET product == CHOOSE p \in productRows : TRUE
         IN  IF ~product.isActive
             THEN {BadRequestError("Product is not available", <<>>)}
             ELSE IF product.stock < 1
             THEN {BadRequestError("Product is out of stock", <<>>)}
             ELSE IF product.stock < quantity
             THEN {BadRequestError("Only N items available", <<product.stock>>)}
             ELSE {}

\* Mutant: the requested quantity replaces the stored one.
NewQuantity_Overwrite(existingQuantity, quantity) == quantity

\* const newQuantity = existingItem.quantity + quantity
NewQuantity(existingQuantity, quantity) == existingQuantity + quantity

\* Mutant: the bound is off by one.
MergeExceedsStock_OffByOne(newQuantity, stock) == newQuantity > stock + 1

\* if (newQuantity > product.stock)
MergeExceedsStock(newQuantity, stock) == newQuantity > stock

\* Mutant: the merge adds the requested quantity to the quantity the store
\* holds at the write (an atomic increment).
AddWriteFrom_Increment(db, cartItems, cart, product, productId, quantity) ==
    LET existing == FindItem(cartItems, productId)
    IN  IF existing # {}
        THEN LET existingItem == CHOOSE i \in existing : TRUE
                 stored == CHOOSE i \in db.items : i.id = existingItem.id
             IN  IF existingItem.quantity + quantity > product.stock
                 THEN [db |-> db,
                       error |-> {BadRequestError("Cannot add Q more. Only N available",
                                     <<quantity, product.stock - existingItem.quantity>>)}]
                 ELSE [db |-> CartItemUpdate(db, existingItem.id,
                                             stored.quantity + quantity),
                       error |-> {}]
        ELSE [db |-> CartItemCreate(db, cart.id, productId, quantity), error |-> {}]

\* Mutant: the message reports the stock itself.
Remaining_AbsoluteStock(stock, existingQuantity) == stock

\* product.stock - existingItem.quantity, the number the merge error reports.
Remaining(stock, existingQuantity) == stock - existingQuantity

\* The write of addToCart, given the items that came with the cart when it was
\* read: update the existing item or insert a new one.
AddWriteFrom(db, cartItems, cart, product, productId, quantity) ==
    LET existing == FindItem(cartItems, productId)
    IN  IF existing # {}
        THEN LET existingItem == CHOOSE i \in existing : TRUE
                 newQuantity == NewQuantity(existingItem.quantity, quantity)
             IN  IF MergeExceedsStock(newQuantity, product.stock)
                 THEN [db |-> db,
                       error |-> {BadRequestError("Cannot add Q more. Only N available",
                                     <<quantity, Remaining(product.stock, existingItem.quantity)>>)}]
                 ELSE [db |-> CartItemUpdate(db, existingItem.id, newQuantity),
                       error |-> {}]
        ELSE [db |-> CartItemCreate(db, cart.id, productId, quantity), error |-> {}]

\* One request at a time: the items are those the store holds at the write.
AddWrite(db, cart, product, productId, quantity) ==
    AddWriteFrom(db, CartItemsOf(db, cart.id), cart, product, productId, quantity)

addToCart(db, req) ==
    LET userId == AddToCartUserId(req)
        productId == req.body.productId
        quantity == AddQuantity(req.body)
        productRows == ProductFindUnique(db, productId)
        productError == AddProductError(productRows, quantity)
    IN  IF IsNaNOrBelowOne(userId)
        THEN Out(db, Fail("addToCart", ValidationError("Invalid user ID")))
        ELSE IF productError # {}
        THEN Out(db, Fail("addToCart", CHOOSE e \in productError : TRUE))
        ELSE LET product == CHOOSE p \in productRows : TRUE
                 db1 == IF CartFindUnique(db, userId.v) = {}
                        THEN CartCreate(db, userId.v) ELSE db
                 cart == CHOOSE c \in CartFindUnique(db1, userId.v) : TRUE
                 w == AddWrite(db1, cart, product, productId, quantity)
             IN  IF w.error # {}
                 THEN Out(w.db, Fail("addToCart", CHOOSE e \in w.error : TRUE))
                 ELSE Out(w.db, Success("addToCart", 201, "Item added to cart",
                                        CartView(w.db, cart, MutationSelect)))

updateCartItem(db, req) ==
    LET userId == UpdateCartItemUserId(req)
        productId == ParseIntParam(req.params, "productId")
        quantity == req.body.quantity
        cartRows == CartFindUnique(db, userId.v)
    IN  IF IsNaNOrBelowOne(userId)
        THEN Out(db, Fail("updateCartItem", ValidationError("Invalid user ID")))
        ELSE IF IsNaNOrBelowOne(productId)
        THEN Out(db, Fail("updateCartItem", ValidationError("Invalid product ID")))
        ELSE IF cartRows = {}
        THEN Out(db, Fail("updateCartItem", NotFoundError("Cart")))
        ELSE LET cart == CHOOSE c \in cartRows : TRUE
                 found == FindItem(CartItemsOf(db, cart.id), productId.v)
                 productRows == ProductFindUnique(db, productId.v)
             IN  IF found = {}
                 THEN Out(db, Fail("updateCartItem", NotFoundError("Cart item")))
                 ELSE IF productRows = {}
                 THEN Out(db, Fail("updateCartItem", NotFoundError("Product")))
                 ELSE LET cartItem == CHOOSE i \in found : TRUE
                          product == CHOOSE p \in productRows : TRUE
                          db1 == IF quantity < 1
                                 THEN CartItemDelete(db, cartItem.id)
                                 ELSE CartItemUpdate(db, cartItem.id, quantity)
                      IN  IF quantity > product.stock
                          THEN Out(db, Fail("updateCartItem",
                                   BadRequestError("Only N items available",
                                                   <<product.stock>>)))
                          ELSE Out(db1, Success("updateCartItem", 200, "Cart updated",
                                                CartView(db1, cart, MutationSelect)))

removeFromCart(db, req) ==
    LET userId == RemoveFromCartUserId(req)
        productId == ParseIntParam(req.params, "productId")
        cartRows == CartFindUnique(db, userId.v)
    IN  IF IsNaNOrBelowOne(userId)
        THEN Out(db, Fail("removeFromCart", ValidationError("Invalid user ID")))
        ELSE IF IsNaNOrBelowOne(productId)
        THEN Out(db, Fail("removeFromCart", ValidationError("Invalid product ID")))
        ELSE IF cartRows = {}
        THEN Out(db, Fail("removeFromCart", NotFoundError("Cart")))
        ELSE LET cart == CHOOSE c \in cartRows : TRUE
                 found == FindItem(CartItemsOf(db, cart.id), productId.v)
             IN  IF found = {}
                 THEN Out(db, Fail("removeFromCart", NotFoundError("Cart item")))
                 ELSE LET cartItem == CHOOSE i \in found : TRUE
                          db1 == CartItemDelete(db, cartItem.id)
                      IN  Out(db1, Success("removeFromCart", 200, "Item removed from cart",
                                           CartView(db1, cart, MutationSelect)))

clearCart(db, req) ==
    LET userId == ClearCartUserId(req)
        cartRows == CartFindUnique(db, userId.v)
    IN  IF IsNaNOrBelowOne(userId)
        THEN Out(db, Fail("clearCart", ValidationError("Invalid user ID")))
        ELSE IF cartRows = {}
        THEN Out(db, Fail("clearCart", NotFoundError("Cart")))
        ELSE LET cart == CHOOSE c \in cartRows : TRUE
                 db1 == CartItemDeleteMany(db, cart.id)
             IN  Out(db1, Success("clearCart", 200, "Cart cleared",
                                  [id |-> cart.id, items |-> {}, totalItems |-> 0,
                                   totalPrice |-> 0, userId |-> cart.userId]))

(***************************************************************************)
(* controllers/productController.js                                        *)
(***************************************************************************)
\* updateData: only the fields that the body provides are written.
updateProduct(db, id, body) ==
    IF ProductFindUnique(db, id) = {}
    THEN Out(db, Fail("updateProduct", NotFoundError("Product")))
    ELSE LET old == db.products[id]
             new == [f \in DOMAIN old |-> IF f \in DOMAIN body THEN body[f] ELSE old[f]]
         IN  Out([db EXCEPT !.products[id] = new],
                 [message |-> "Product updated successfully",
                  op |-> "updateProduct", status |-> 200])

(***************************************************************************)
(* controllers/userController.js                                           *)
(***************************************************************************)
\* prisma.user.update({ where: { id }, data: { isActive } })
UserSetActive(db, id, isActive) == [db EXCEPT !.users[id].isActive = isActive]

\* prisma.user.delete({ where: { id } }): the cart of the user and its items
\* go with the row.
UserDelete(db, id) ==
    LET gone == {c.id : c \in CartFindUnique(db, id)}
    IN  [db EXCEPT !.users = [u \in DOMAIN @ \ {id} |-> @[u]],
                   !.carts = {c \in @ : c.userId # id},
                   !.items = {i \in @ : i.cartId \notin gone}]

\* Mutant: the account is reported deactivated and the row is left as it was.
deactivateUser_NoWrite(db, req) ==
    LET id == ParseIntParam(req.params, "id")
    IN  IF IsNaNOrBelowOne(id)
        THEN Out(db, Fail("deactivateUser", ValidationError("Invalid user ID")))
        ELSE IF id.v \notin DOMAIN db.users
        THEN Out(db, Fail("deactivateUser", NotFoundError("User")))
        ELSE IF id.v = req.user.userId
        THEN Out(db, Fail("deactivateUser",
                          BadRequestError("You cannot deactivate your own account", <<>>)))
        ELSE Out(db,
                 [message |-> "User deactivated successfully",
                  op |-> "deactivateUser", status |-> 200])

deactivateUser(db, req) ==
    LET id == ParseIntParam(req.params, "id")
    IN  IF IsNaNOrBelowOne(id)
        THEN Out(db, Fail("deactivateUser", ValidationError("Invalid user ID")))
        ELSE IF id.v \notin DOMAIN db.users
        THEN Out(db, Fail("deactivateUser", NotFoundError("User")))
        ELSE IF id.v = req.user.userId
        THEN Out(db, Fail("deactivateUser",
                          BadRequestError("You cannot deactivate your own account", <<>>)))
        ELSE Out(UserSetActive(db, id.v, FALSE),
                 [message |-> "User deactivated successfully",
                  op |-> "deactivateUser", status |-> 200])

activateUser(db, req) ==
    LET id == ParseIntParam(req.params, "id")
    IN  IF IsNaNOrBelowOne(id)
        THEN Out(db, Fail("activateUser", ValidationError("Invalid user ID")))
        ELSE IF id.v \notin DOMAIN db.users
        THEN Out(db, Fail("activateUser", NotFoundError("User")))
        ELSE Out(UserSetActive(db, id.v, TRUE),
                 [message |-> "User activated successfully",
                  op |-> "activateUser", status |-> 200])

deleteUser(db, req) ==
    LET id == ParseIntParam(req.params, "id")
    IN  IF IsNaNOrBelowOne(id)
        THEN Out(db, Fail("deleteUser", ValidationError("Invalid user ID")))
        ELSE IF id.v \notin DOMAIN db.users
        THEN Out(db, Fail("deleteUser", NotFoundError("User")))
        ELSE IF id.v = req.user.userId
        THEN Out(db, Fail("deleteUser",
                          BadRequestError("You cannot delete your own account", <<>>)))
        ELSE Out(UserDelete(db, id.v),
                 [message |-> "User deleted successfully",
                  op |-> "deleteUser", status |-> 200])

(***************************************************************************)
(* routes/cart.js: the requests as mounted                                 *)
(***************************************************************************)
\* Bodies of POST /items: every product with every quantity up to one more
\* than the stock, a product that does not exist, and the bodies that the
\* validator rejects.
AddBodies ==
    {[productId |-> p, quantity |-> q] : p \in Products, q \in 1 .. (MaxStock + 1)}
      \cup {[productId |-> p, quantity |-> 1] : p \in MissingProducts}
      \cup {[productId |-> 1, quantity |-> q] : q \in {0, MaxQuantity + 1}}
      \cup {[productId |-> 0, quantity |-> q] : q \in {0, 1}}
      \cup {[productId |-> 1]}

\* Bodies of PUT /items/:productId: removal, one unit, the whole stock.
UpdateBodies == {[quantity |-> q] : q \in {0, 1, MaxStock}}

\* The second account adds the first product, one unit at a time; so does a
\* caller who is not authenticated.
SecondUserBodies == {[productId |-> 1, quantity |-> 1]}

\* Requests to POST /items.
AddRequests ==
    {[body |-> b, headers |-> BearerOf(1)] : b \in AddBodies}
      \cup {[body |-> b, headers |-> h] :
               b \in SecondUserBodies, h \in Headers \ {BearerOf(1)}}

\* The path parameters express hands to the handler of each route.
NoParams == [x \in {} |-> 0]
ItemParams(productId) == [productId |-> productId]

\* router.use(authenticate), then the validator, then the controller.
Pipeline(op, headers, msgs, handled) ==
    LET auth == authenticate(Database, headers)
    IN  IF ~auth.ok THEN Out(Database, Fail(op, auth.error))
        ELSE IF msgs # <<>> THEN Out(Database, Fail(op, ValidationError(JoinMessages(msgs))))
        ELSE handled

\* The request object after authenticate.
Req(headers, params, body) ==
    [body |-> body, params |-> params, user |-> authenticate(Database, headers).user]

Commit(r, out) ==
    /\ request' = r
    /\ users' = out.db.users
    /\ products' = out.db.products
    /\ carts' = out.db.carts
    /\ items' = out.db.items
    /\ nextCartId' = out.db.nextCartId
    /\ nextItemId' = out.db.nextItemId
    /\ response' = out.res
    /\ UNCHANGED <<procs, alone>>

\* GET /
GetCartRequest(headers) ==
    Commit([headers |-> headers, op |-> "getCart"],
           Pipeline("getCart", headers, <<>>,
                    getCart(Database, Req(headers, NoParams, NoParams))))

\* POST /items
AddToCartRequest(headers, body) ==
    Commit([body |-> body, headers |-> headers, op |-> "addToCart"],
           Pipeline("addToCart", headers, validateCartItem(body),
                    addToCart(Database, Req(headers, NoParams, body))))

\* PUT /items/:productId
UpdateCartItemRequest(headers, productId, body) ==
    Commit([body |-> body, headers |-> headers, op |-> "updateCartItem",
            params |-> ItemParams(productId)],
           Pipeline("updateCartItem", headers, validateQuantityUpdate(body),
                    updateCartItem(Database, Req(headers, ItemParams(productId), body))))

\* DELETE /items/:productId
RemoveFromCartRequest(headers, productId) ==
    Commit([headers |-> headers, op |-> "removeFromCart",
            params |-> ItemParams(productId)],
           Pipeline("removeFromCart", headers, <<>>,
                    removeFromCart(Database, Req(headers, ItemParams(productId), NoParams))))

\* DELETE /
ClearCartRequest(headers) ==
    Commit([headers |-> headers, op |-> "clearCart"],
           Pipeline("clearCart", headers, <<>>,
                    clearCart(Database, Req(headers, NoParams, NoParams))))

\* PUT /api/products/:id by the catalogue administrator, one field at a time:
\* the stock sold out, lowered by one, or restored.
ProductBodies == {[stock |-> s] : s \in {0, MaxStock - 1, MaxStock}}
                    \cup {[isActive |-> b] : b \in BOOLEAN}

\* Requests to PUT /api/products/:id.
ProductRequests ==
    {[body |-> b, id |-> p] : p \in EditedProducts, b \in ProductBodies}
      \cup {[body |-> [isActive |-> FALSE], id |-> p] : p \in MissingProducts}

UpdateProductRequest(id, body) ==
    Commit([body |-> body, op |-> "updateProduct", params |-> [id |-> id]],
           updateProduct(Database, id, body))

(***************************************************************************)
(* routes/users.js: the user management requests                           *)
(***************************************************************************)
\* router.use(authenticate); router.use(authorize("ADMIN")); the controller.
AdminPipeline(op, headers, handled) ==
    LET auth == authenticate(Database, headers)
    IN  IF ~auth.ok THEN Out(Database, Fail(op, auth.error))
        ELSE LET denied == authorize(op, auth.user, {"ADMIN"})
             IN  IF denied # {} THEN Out(Database, CHOOSE r \in denied : TRUE)
                 ELSE handled

\* The administrator manages the second account and tries its own; the
\* first account, a plain user, tries to manage the second.
UserRequests ==
    {[headers |-> BearerOf(a), id |-> u] : a \in Admins, u \in ManagedUsers \cup Admins}
      \cup {[headers |-> BearerOf(1), id |-> u] : u \in ManagedUsers}

\* PUT /:id/deactivate
DeactivateUserRequest(headers, id) ==
    Commit([headers |-> headers, op |-> "deactivateUser", params |-> [id |-> id]],
           AdminPipeline("deactivateUser", headers,
                         deactivateUser(Database, Req(headers, [id |-> id], NoParams))))

\* PUT /:id/activate
ActivateUserRequest(headers, id) ==
    Commit([headers |-> headers, op |-> "activateUser", params |-> [id |-> id]],
           AdminPipeline("activateUser", headers,
                         activateUser(Database, Req(headers, [id |-> id], NoParams))))

\* DELETE /:id
DeleteUserRequest(headers, id) ==
    Commit([headers |-> headers, op |-> "deleteUser", params |-> [id |-> id]],
           AdminPipeline("deleteUser", headers,
                         deleteUser(Database, Req(headers, [id |-> id], NoParams))))

(***************************************************************************)
(* Specification                                                           *)
(***************************************************************************)
\* Initial prices in mills: 0.014 and 10.014.
InitialPrice == [p \in Products |-> IF p = 1 THEN 14 ELSE 10014]

Product(id, price) ==
    [id |-> id, isActive |-> TRUE, price |-> price, stock |-> MaxStock,
     thumbnail |-> "", title |-> "product"]

Init ==
    /\ users = [u \in Users |-> [id |-> u, isActive |-> TRUE, role |-> "USER"]]
    /\ products = [p \in Products |-> Product(p, InitialPrice[p])]
    /\ carts = {}
    /\ items = {}
    /\ nextCartId = 1
    /\ nextItemId = 1
    /\ request = [op |-> "none"]
    /\ response = [op |-> "none", status |-> 0]
    /\ procs = <<>>
    /\ alone = <<>>

Next ==
    \/ \E h \in Headers : GetCartRequest(h)
    \/ \E r \in AddRequests : AddToCartRequest(r.headers, r.body)
    \/ \E u \in Users, p \in Products, b \in UpdateBodies :
           UpdateCartItemRequest(BearerOf(u), p, b)
    \/ \E u \in Users, p \in Products : RemoveFromCartRequest(BearerOf(u), p)
    \/ \E u \in Users : ClearCartRequest(BearerOf(u))
    \/ \E r \in ProductRequests : UpdateProductRequest(r.id, r.body)

Spec == Init /\ [][Next]_vars

(***************************************************************************)
(* The cart requests with user management and price changes: the accounts  *)
(* of Users and an administrator; one product is priced anew, the second   *)
(* account is deactivated, activated again and deleted.                    *)
(***************************************************************************)
InitAccounts ==
    /\ users = [u \in Users \cup Admins |->
                  [id |-> u, isActive |-> TRUE,
                   role |-> IF u \in Admins THEN "ADMIN" ELSE "USER"]]
    /\ products = [p \in Products |-> Product(p, InitialPrice[p])]
    /\ carts = {}
    /\ items = {}
    /\ nextCartId = 1
    /\ nextItemId = 1
    /\ request = [op |-> "none"]
    /\ response = [op |-> "none", status |-> 0]
    /\ procs = <<>>
    /\ alone = <<>>

NextAccounts ==
    \/ \E h \in Headers : GetCartRequest(h)
    \/ \E u \in Users, b \in SecondUserBodies : AddToCartRequest(BearerOf(u), b)
    \/ \E u \in Users : UpdateCartItemRequest(BearerOf(u), 1, [quantity |-> 1])
    \/ \E u \in Users : RemoveFromCartRequest(BearerOf(u), 1)
    \/ \E u \in Users : ClearCartRequest(BearerOf(u))
    \/ \E x \in PriceEdits : UpdateProductRequest(1, [price |-> x])
    \/ \E r \in UserRequests : DeactivateUserRequest(r.headers, r.id)
    \/ \E r \in UserRequests : ActivateUserRequest(r.headers, r.id)
    \/ \E r \in UserRequests : DeleteUserRequest(r.headers, r.id)

AccountSpec == InitAccounts /\ [][NextAccounts]_vars

(***************************************************************************)
(* Concurrent requests.  Two requests are in flight at a time; each handler *)
(* runs from one await to the next as one step, and the store calls of the  *)
(* two interleave.  The first request stream belongs to account 1, the      *)
(* second to account 1 or 2; the product table is left alone.               *)
(***************************************************************************)
Procs == {1, 2}

\* Quantities the concurrent add-item requests ask for, all of product 1.
RaceQuantities == {1, 2, MaxStock + 1}
RaceProduct == 1

\* A request stream with no request in flight.
Idle(owner) ==
    [body |-> NoParams, cart |-> {}, items |-> {}, op |-> "none", owner |-> owner,
     pc |-> "idle", product |-> {}]

\* The store one owner would have with no other owner's requests around it.
EmptyStore ==
    [carts |-> {}, items |-> {}, nextCartId |-> 1, nextItemId |-> 1,
     res |-> [op |-> "none", status |-> 0]]

SoloDb(u) ==
    [carts |-> alone[u].carts, items |-> alone[u].items,
     nextCartId |-> alone[u].nextCartId, nextItemId |-> alone[u].nextItemId,
     products |-> products, users |-> users]

\* The request of stream p as the sequential handlers take it.
RaceReq(l) == Req(BearerOf(l.owner), NoParams, l.body)

\* What the request in flight of stream p returns and leaves when the owner's
\* requests run alone, one at a time.
SoloOut(l) ==
    IF l.op = "addToCart" THEN addToCart(SoloDb(l.owner), RaceReq(l))
    ELSE getCart(SoloDb(l.owner), RaceReq(l))

\* Cart.userId is unique: a second row for the same user is rejected.
CartCreateConflict(db, userId) == CartFindUnique(db, userId) # {}

\* The store already holds a row for the cart and the product.  Whether it
\* then rejects a second one is the schema's choice: both are modelled.
ItemCreateConflict(db, cartId, productId) ==
    \E i \in db.items : i.cartId = cartId /\ i.productId = productId

\* The error of a rejected write reaches the client as an internal failure.
UniqueConstraintError ==
    AppError("PrismaClientKnownRequestError", 500, "Unique constraint failed", <<>>)

\* A step of stream p that does not end its request.
Continue(p, local, db) ==
    /\ procs' = [procs EXCEPT ![p] = local]
    /\ carts' = db.carts
    /\ items' = db.items
    /\ nextCartId' = db.nextCartId
    /\ nextItemId' = db.nextItemId
    /\ UNCHANGED <<users, products, request, response, alone>>

\* The step of stream p that sends the response of its request l.
Respond(p, l, db, res) ==
    LET out == SoloOut(l)
        solo == out.db
    IN  /\ procs' = [procs EXCEPT ![p] = Idle(l.owner)]
        /\ carts' = db.carts
        /\ items' = db.items
        /\ nextCartId' = db.nextCartId
        /\ nextItemId' = db.nextItemId
        /\ request' = [body |-> l.body, headers |-> BearerOf(l.owner), op |-> l.op]
        /\ response' = res
        /\ alone' = [alone EXCEPT ![l.owner] =
                         [carts |-> solo.carts, items |-> solo.items,
                          nextCartId |-> solo.nextCartId,
                          nextItemId |-> solo.nextItemId, res |-> out.res]]
        /\ UNCHANGED <<users, products>>

\* addToCart, lines 96-124: the request arrives, the product is read and
\* checked.
AddStart(p, quantity) ==
    LET l == [procs[p] EXCEPT !.body = [productId |-> RaceProduct, quantity |-> quantity],
                              !.op = "addToCart"]
        productRows == ProductFindUnique(Database, RaceProduct)
        productError == AddProductError(productRows, quantity)
    IN  /\ procs[p].pc = "idle"
        /\ IF productError # {}
           THEN Respond(p, l, Database,
                        Fail("addToCart", CHOOSE e \in productError : TRUE))
           ELSE Continue(p, [l EXCEPT !.pc = "findCart", !.product = productRows],
                         Database)

\* addToCart, lines 127-130: the cart is read with its items.
AddFindCart(p) ==
    LET l == procs[p]
        rows == CartFindUnique(Database, l.owner)
    IN  /\ l.pc = "findCart"
        /\ IF rows = {}
           THEN Continue(p, [l EXCEPT !.pc = "createCart"], Database)
           ELSE Continue(p, [l EXCEPT !.pc = "write", !.cart = rows,
                                      !.items = UNION {CartItemsOf(Database, c.id) :
                                                          c \in rows}],
                         Database)

\* addToCart, lines 132-137: no cart was found, one is created.
AddCreateCart(p) ==
    LET l == procs[p]
    IN  /\ l.pc = "createCart"
        /\ IF CartCreateConflict(Database, l.owner)
           THEN Respond(p, l, Database, Fail("addToCart", UniqueConstraintError))
           ELSE Continue(p, [l EXCEPT !.pc = "write",
                                      !.cart = {[id |-> nextCartId, userId |-> l.owner]}],
                         CartCreate(Database, l.owner))

\* addToCart, lines 139-167: the item found in the cart as it was read is
\* updated, or a new one is inserted.
AddWriteStep(p) ==
    LET l == procs[p]
        cart == CHOOSE c \in l.cart : TRUE
        product == CHOOSE r \in l.product : TRUE
        w == AddWriteFrom(Database, l.items, cart, product,
                          l.body.productId, l.body.quantity)
    IN  /\ l.pc = "write"
        /\ \/ IF w.error # {}
              THEN Respond(p, l, Database,
                           Fail("addToCart", CHOOSE e \in w.error : TRUE))
              ELSE Continue(p, [l EXCEPT !.pc = "read"], w.db)
           \/ /\ FindItem(l.items, l.body.productId) = {}
              /\ ItemCreateConflict(Database, cart.id, l.body.productId)
              /\ Respond(p, l, Database, Fail("addToCart", UniqueConstraintError))

\* addToCart, lines 169-219: the cart is read again and returned.
AddRead(p) ==
    LET l == procs[p]
        cart == CHOOSE c \in l.cart : TRUE
    IN  /\ l.pc = "read"
        /\ Respond(p, l, Database,
                   Success("addToCart", 201, "Item added to cart",
                           CartView(Database, cart, MutationSelect)))

\* getCart, lines 14-36 and 60-90: the cart is read with items and products;
\* an existing cart is returned at once.
GetStart(p) ==
    LET l == [procs[p] EXCEPT !.op = "getCart"]
        rows == CartFindUnique(Database, l.owner)
    IN  /\ procs[p].pc = "idle"
        /\ IF rows = {}
           THEN Continue(p, [l EXCEPT !.pc = "getCreate"], Database)
           ELSE Respond(p, l, Database,
                        Success("getCart", 200, "",
                                CartView(Database, CHOOSE c \in rows : TRUE,
                                         GetCartSelect)))

\* getCart, lines 38-59: no cart was found, one is created and returned.
GetCreate(p) ==
    LET l == procs[p]
        db1 == CartCreate(Database, l.owner)
    IN  /\ l.pc = "getCreate"
        /\ IF CartCreateConflict(Database, l.owner)
           THEN Respond(p, l, Database, Fail("getCart", UniqueConstraintError))
           ELSE Respond(p, l, db1,
                        Success("getCart", 200, "",
                                CartView(db1, [id |-> nextCartId, userId |-> l.owner],
                                         GetCartSelect)))

InitRace ==
    /\ users = [u \in Users |-> [id |-> u, isActive |-> TRUE, role |-> "USER"]]
    /\ products = [p \in Products |-> Product(p, InitialPrice[p])]
    /\ carts = {}
    /\ items = {}
    /\ nextCartId = 1
    /\ nextItemId = 1
    /\ request = [op |-> "none"]
    /\ response = [op |-> "none", status |-> 0]
    /\ \E u \in Users : procs = [p \in Procs |-> Idle(IF p = 1 THEN 1 ELSE u)]
    /\ alone = [u \in Users |-> EmptyStore]

NextRace ==
    \/ \E p \in Procs, q \in RaceQuantities : AddStart(p, q)
    \/ \E p \in Procs : AddFindCart(p)
    \/ \E p \in Procs : AddCreateCart(p)
    \/ \E p \in Procs : AddWriteStep(p)
    \/ \E p \in Procs : AddRead(p)
    \/ \E p \in Procs : GetStart(p)
    \/ \E p \in Procs : GetCreate(p)

RaceSpec == InitRace /\ [][NextRace]_vars

(***************************************************************************)
(* Concurrent user management.  Accounts 1 and 2 are active administrators; *)
(* each sends role changes, deactivations and deletions aimed at either     *)
(* account.  A request runs authenticate and authorize, then the handler's  *)
(* read of the target, then its write, and the steps of the two interleave. *)
(***************************************************************************)
RaceAdmins == {1, 2}

\* The operations of the concurrent administrators and the roles they assign.
AdminOps == {"updateUserRole", "deactivateUser", "deleteUser"}
RoleBodies == {"USER", "ADMIN"}

\* The route parameter id and, for a role change, the role of the body.
AdminInputs(op) ==
    IF op = "updateUserRole"
    THEN {[id |-> u, role |-> r] : u \in RaceAdmins, r \in RoleBodies}
    ELSE {[id |-> u] : u \in RaceAdmins}

RoleOf(input) == IF "role" \in DOMAIN input THEN input.role ELSE ""

\* prisma.user.update({ where: { id }, data: { role } })
UserSetRole(db, id, role) == [db EXCEPT !.users[id].role = role]

\* The handler between its read of the target and its write: the error it
\* throws, if any (updateUserRole 122-134, deactivateUser 168-180,
\* deleteUser 248-259).
AdminGuard(op, db, id, userId, role) ==
    IF id \notin DOMAIN db.users THEN {NotFoundError("User")}
    ELSE IF op = "updateUserRole"
    THEN IF id = userId /\ role # "ADMIN"
         THEN {BadRequestError("You cannot change your own admin role", <<>>)}
         ELSE {}
    ELSE IF id = userId
    THEN {BadRequestError(IF op = "deactivateUser"
                          THEN "You cannot deactivate your own account"
                          ELSE "You cannot delete your own account", <<>>)}
    ELSE {}

\* The write of the handler.
AdminWriteDb(op, db, id, role) ==
    IF op = "updateUserRole" THEN UserSetRole(db, id, role)
    ELSE IF op = "deactivateUser" THEN UserSetActive(db, id, FALSE)
    ELSE UserDelete(db, id)

AdminMessage(op) ==
    IF op = "updateUserRole" THEN "User role updated successfully"
    ELSE IF op = "deactivateUser" THEN "User deactivated successfully"
    ELSE "User deleted successfully"

\* An update or delete of a row that is gone is rejected by the store.
RecordNotFoundError ==
    AppError("PrismaClientKnownRequestError", 500, "Record not found", <<>>)

\* A step of administrator stream p that does not end its request.
AdminContinue(p, local) ==
    /\ procs' = [procs EXCEPT ![p] = local]
    /\ UNCHANGED <<users, products, carts, items, nextCartId, nextItemId,
                   request, response, alone>>

\* The step of administrator stream p that sends the response of request l.
AdminRespond(p, l, db, res) ==
    /\ procs' = [procs EXCEPT ![p] = Idle(l.owner)]
    /\ users' = db.users
    /\ carts' = db.carts
    /\ items' = db.items
    /\ request' = [body |-> l.body, headers |-> BearerOf(l.owner), op |-> l.op]
    /\ response' = res
    /\ UNCHANGED <<products, nextCartId, nextItemId, alone>>

\* router.use(authenticate); router.use(authorize("ADMIN")): the caller is
\* read from the store and checked.
AdminStart(p, op, input) ==
    LET l == [procs[p] EXCEPT !.body = input, !.op = op]
        auth == authenticate(Database, BearerOf(l.owner))
    IN  /\ procs[p].pc = "idle"
        /\ IF ~auth.ok
           THEN AdminRespond(p, l, Database, Fail(op, auth.error))
           ELSE LET denied == authorize(op, auth.user, {"ADMIN"})
                IN  IF denied # {}
                    THEN AdminRespond(p, l, Database, CHOOSE r \in denied : TRUE)
                    ELSE AdminContinue(p, [l EXCEPT !.pc = "findUser"])

\* prisma.user.findUnique({ where: { id } }) and the checks on its result.
AdminFindUser(p) ==
    LET l == procs[p]
        thrown == AdminGuard(l.op, Database, l.body.id, l.owner, RoleOf(l.body))
    IN  /\ l.pc = "findUser"
        /\ IF thrown # {}
           THEN AdminRespond(p, l, Database, Fail(l.op, CHOOSE e \in thrown : TRUE))
           ELSE AdminContinue(p, [l EXCEPT !.pc = "writeUser"])

\* prisma.user.update / prisma.user.delete and the response.
AdminWriteUser(p) ==
    LET l == procs[p]
    IN  /\ l.pc = "writeUser"
        /\ IF l.body.id \notin DOMAIN users
           THEN AdminRespond(p, l, Database, Fail(l.op, RecordNotFoundError))
           ELSE AdminRespond(p, l, AdminWriteDb(l.op, Database, l.body.id, RoleOf(l.body)),
                             [message |-> AdminMessage(l.op), op |-> l.op,
                              status |-> 200])

InitAdminRace ==
    /\ users = [u \in RaceAdmins |-> [id |-> u, isActive |-> TRUE, role |-> "ADMIN"]]
    /\ products = [p \in Products |-> Product(p, InitialPrice[p])]
    /\ carts = {}
    /\ items = {}
    /\ nextCartId = 1
    /\ nextItemId = 1
    /\ request = [op |-> "none"]
    /\ response = [op |-> "none", status |-> 0]
    /\ procs = [p \in Procs |-> Idle(p)]
    /\ alone = <<>>

NextAdminRace ==
    \/ \E p \in Procs, op \in AdminOps : \E input \in AdminInputs(op) :
           AdminStart(p, op, input)
    \/ \E p \in Procs : AdminFindUser(p)
    \/ \E p \in Procs : AdminWriteUser(p)

AdminRaceSpec == InitAdminRace /\ [][NextAdminRace]_vars

(***************************************************************************)
(* A well-stocked product: the stock is twice the largest quantity that    *)
(* the validators let through; one owner adds to and updates one item.     *)
(***************************************************************************)
CapStock == 2 * MaxQuantity

\* Quantities around the validators' upper limit.
CapQuantities == {1, MaxQuantity - 1, MaxQuantity, MaxQuantity + 1}

InitCap ==
    /\ users = [u \in Users |-> [id |-> u, isActive |-> TRUE, role |-> "USER"]]
    /\ products = [p \in Products |->
                     [Product(p, InitialPrice[p]) EXCEPT !.stock = CapStock]]
    /\ carts = {}
    /\ items = {}
    /\ nextCartId = 1
    /\ nextItemId = 1
    /\ request = [op |-> "none"]
    /\ response = [op |-> "none", status |-> 0]
    /\ procs = <<>>
    /\ alone = <<>>

NextCap ==
    \/ \E q \in CapQuantities :
           AddToCartRequest(BearerOf(1), [productId |-> 1, quantity |-> q])
    \/ \E q \in CapQuantities :
           UpdateCartItemRequest(BearerOf(1), 1, [quantity |-> q])

CapSpec == InitCap /\ [][NextCap]_vars

(***************************************************************************)
(* Vocabulary of the properties                                            *)
(***************************************************************************)
CartOps == {"getCart", "addToCart", "updateCartItem", "removeFromCart", "clearCart"}

\* The last request passed authenticate (evaluated on the user table of the
\* state it is read in; cart and product requests never change that table).
Authenticated(r) == r.op \in CartOps /\ authenticate(Database, r.headers).ok

\* The authenticated identity of the last request.
CallerOf(r) == authenticate(Database, r.headers).user.userId

\* The items stored in the cart(s) of an owner, and those for one product.
ItemsOfOwner(cs, its, u) == {i \in its : \E c \in cs : c.userId = u /\ c.id = i.cartId}
ItemsFor(cs, its, u, p) == {i \in ItemsOfOwner(cs, its, u) : i.productId = p}

\* The last request was an add-item request that reached the controller.
AddHandled(r) ==
    /\ r.op = "addToCart"
    /\ Authenticated(r)
    /\ validateCartItem(r.body) = <<>>

\* The last request was an update-quantity request by an authenticated caller.
UpdateSent(r) == r.op = "updateCartItem" /\ Authenticated(r)

\* The response carries the given error class and status code.
FailedWith(r, name, statusCode) ==
    ~IsSuccess(r) /\ r.status = statusCode /\ r.error.name = name

(***************************************************************************)
(* C1  Stock bound: after every successful addItem or updateItemQuantity   *)
(* the stored quantity of the affected (owner, product) item is at most    *)
(* the product's stock at the time of that operation.  (A cart request     *)
(* leaves the product table alone, so in the state right after the request *)
(* products still holds the stock the operation saw.)                      *)
(***************************************************************************)
C1_StockBound ==
    /\ (AddHandled(request) /\ IsSuccess(response)) =>
          \A i \in ItemsFor(carts, items, CallerOf(request), request.body.productId) :
              i.quantity <= products[i.productId].stock
    /\ (UpdateSent(request) /\ IsSuccess(response)) =>
          \A i \in ItemsFor(carts, items, CallerOf(request), request.params.productId) :
              i.quantity <= products[i.productId].stock

\* A successful add that merged into an existing item and filled the stock.
C1_Witness ==
    /\ AddHandled(request) /\ IsSuccess(response)
    /\ \E i \in ItemsFor(carts, items, CallerOf(request), request.body.productId) :
          /\ i.quantity = products[i.productId].stock
          /\ i.quantity > request.body.quantity

(***************************************************************************)
(* C2  Uniqueness: no cart holds two CartItems with the same productId.    *)
(***************************************************************************)
C2_Uniqueness ==
    \A i \in items : \A j \in items :
        (i.cartId = j.cartId /\ i.productId = j.productId) => i = j

\* A repeated add for a product already in the cart: the quantity exceeds
\* what this request asked for, one item holds it, and the cart has a second
\* product as well.
C2_Witness ==
    /\ AddHandled(request) /\ IsSuccess(response)
    /\ Cardinality(ItemsFor(carts, items, CallerOf(request), request.body.productId)) = 1
    /\ \E i \in ItemsFor(carts, items, CallerOf(request), request.body.productId) :
          i.quantity > request.body.quantity
    /\ Cardinality(ItemsOfOwner(carts, items, CallerOf(request))) = 2

(***************************************************************************)
(* C3  Owner scoping: each of the five cart operations looks the cart up   *)
(* with the authenticated identity (req.user.userId); no caller-supplied   *)
(* request parameter selects the cart.                                     *)
(***************************************************************************)
\* The owner key the handler of the last request computes.
OwnerKey(r) ==
    LET q == [params |-> IF "params" \in DOMAIN r THEN r.params ELSE NoParams,
              user |-> authenticate(Database, r.headers).user]
    IN  CASE r.op = "getCart" -> GetCartUserId(q)
          [] r.op = "addToCart" -> AddToCartUserId(q)
          [] r.op = "updateCartItem" -> UpdateCartItemUserId(q)
          [] r.op = "removeFromCart" -> RemoveFromCartUserId(q)
          [] r.op = "clearCart" -> ClearCartUserId(q)

C3_OwnerScoping ==
    Authenticated(request) =>
        OwnerKey(request) = [nan |-> FALSE, v |-> CallerOf(request)]

(***************************************************************************)
(* C4  addItem merge: for an active product p with stock s and 1 <= q,     *)
(* addItem(owner, p, q) inserts one item of quantity q when the owner has  *)
(* none and q <= s; turns an existing quantity e into e + q when           *)
(* e + q <= s; and fails with BadRequest, the quantity staying e, when     *)
(* e + q > s.                                                              *)
(***************************************************************************)
C4_Step ==
    LET u == CallerOf(request')
        p == request'.body.productId
        q == request'.body.quantity
        before == ItemsFor(carts, items, u, p)
        after == ItemsFor(carts', items', u, p)
    IN  (/\ AddHandled(request')
         /\ p \in DOMAIN products
         /\ products[p].isActive)
        => IF before = {}
           THEN (q <= products[p].stock) =>
                    /\ IsSuccess(response')
                    /\ Cardinality(after) = 1
                    /\ \A i \in after : i.quantity = q
           ELSE \A e \in before :
                    IF e.quantity + q <= products[p].stock
                    THEN /\ IsSuccess(response')
                         /\ after = {[e EXCEPT !.quantity = e.quantity + q]}
                    ELSE /\ FailedWith(response', "BadRequestError", 400)
                         /\ after = before

C4_AddMerge == [][C4_Step]_vars

\* The second step of the scenario: the merge is refused, the error names the
\* remaining increment, and the item keeps its quantity.
C4_Witness ==
    /\ AddHandled(request)
    /\ FailedWith(response, "BadRequestError", 400)
    /\ response.error.message = "Cannot add Q more. Only N available"
    /\ \E i \in ItemsFor(carts, items, CallerOf(request), request.body.productId) :
          /\ i.quantity + request.body.quantity > products[i.productId].stock
          /\ response.error.args =
                 <<request.body.quantity, products[i.productId].stock - i.quantity>>

(***************************************************************************)
(* C5  Totals: in every CartView returned by getOrCreateCart, addItem,     *)
(* updateItemQuantity and removeItem, each subtotal is the product's       *)
(* current price times the item quantity, totalItems is the sum of the     *)
(* quantities and totalPrice is the sum of the subtotals rounded to two    *)
(* decimals once, all taken from the stored items and products.            *)
(***************************************************************************)
\* The multiple of one cent nearest to an amount in mills.
NearestCent(x) == CHOOSE c \in 0 .. (x + 10) : c % 10 = 0 /\ 2 * c - 10 < 2 * x /\ 2 * x <= 2 * c + 10

\* Quantity and amount the owner's stored items add up to, product by product.
RECURSIVE StoredQuantity(_, _)
StoredQuantity(u, P) ==
    IF P = {} THEN 0
    ELSE LET p == CHOOSE x \in P : TRUE
             held == ItemsFor(carts, items, u, p)
         IN  (IF held = {} THEN 0 ELSE (CHOOSE i \in held : TRUE).quantity)
             + StoredQuantity(u, P \ {p})

RECURSIVE StoredAmount(_, _)
StoredAmount(u, P) ==
    IF P = {} THEN 0
    ELSE LET p == CHOOSE x \in P : TRUE
             held == ItemsFor(carts, items, u, p)
         IN  (IF held = {} THEN 0
              ELSE (CHOOSE i \in held : TRUE).quantity * products[p].price)
             + StoredAmount(u, P \ {p})

ViewReturned ==
    /\ request.op \in {"getCart", "addToCart", "updateCartItem", "removeFromCart"}
    /\ IsSuccess(response)

C5_Totals ==
    ViewReturned =>
        LET u == CallerOf(request)
            view == response.cart
        IN  /\ {[cartId |-> i.cartId, id |-> i.id, productId |-> i.productId,
                  quantity |-> i.quantity] : i \in view.items}
                  = ItemsOfOwner(carts, items, u)
            /\ \A i \in view.items :
                  /\ i.subtotal = products[i.productId].price * i.quantity
                  /\ i.product.price = products[i.productId].price
            /\ view.totalItems = StoredQuantity(u, Products)
            /\ view.totalPrice = NearestCent(StoredAmount(u, Products))

\* A view of two items whose exact sum is not a whole number of cents.
C5_Witness ==
    /\ ViewReturned
    /\ Cardinality(response.cart.items) = 2
    /\ response.cart.totalPrice # StoredAmount(CallerOf(request), Products)
    /\ response.cart.totalItems > 2

(***************************************************************************)
(* C6  addItem failures leave the cart store unchanged: NotFound when the  *)
(* product does not exist; BadRequest when it is inactive, when its stock  *)
(* is 0, or when the requested quantity exceeds its stock; in each of      *)
(* these no CartItem is inserted or changed and no Cart is created.        *)
(***************************************************************************)
C6_Step ==
    LET p == request'.body.productId
        q == request'.body.quantity
    IN  AddHandled(request') =>
          /\ (p \notin DOMAIN products) =>
                /\ FailedWith(response', "NotFoundError", 404)
                /\ carts' = carts /\ items' = items
          /\ (p \in DOMAIN products
                 /\ (~products[p].isActive \/ products[p].stock = 0
                        \/ q > products[p].stock)) =>
                /\ FailedWith(response', "BadRequestError", 400)
                /\ carts' = carts /\ items' = items

C6_AddFailures == [][C6_Step]_vars

\* An add of an inactive product by an owner without a cart: BadRequest, and
\* the owner still has no cart.
C6_Witness ==
    /\ AddHandled(request)
    /\ request.body.productId \in DOMAIN products
    /\ ~products[request.body.productId].isActive
    /\ FailedWith(response, "BadRequestError", 400)
    /\ response.error.message = "Product is not available"
    /\ CartFindUnique(Database, CallerOf(request)) = {}

(***************************************************************************)
(* C7  updateItemQuantity(owner, p, q) fails with NotFound when the owner  *)
(* has no cart or no item for p, fails with BadRequest when q exceeds the  *)
(* stock of p, the store staying unchanged in both; otherwise, for q >= 1, *)
(* it sets the quantity of exactly that item to q.                         *)
(***************************************************************************)
C7_Step ==
    LET u == CallerOf(request')
        p == request'.params.productId
        q == request'.body.quantity
        before == ItemsFor(carts, items, u, p)
    IN  UpdateSent(request') =>
          IF before = {}
          THEN /\ FailedWith(response', "NotFoundError", 404)
               /\ carts' = carts /\ items' = items
          ELSE IF q > products[p].stock
          THEN /\ FailedWith(response', "BadRequestError", 400)
               /\ carts' = carts /\ items' = items
          ELSE (q >= 1) =>
                 /\ IsSuccess(response')
                 /\ carts' = carts
                 /\ items' = {IF i \in before THEN [i EXCEPT !.quantity = q] ELSE i
                               : i \in items}

C7_UpdateQuantity == [][C7_Step]_vars

(***************************************************************************)
(* C8  Removal shortcut: when the owner's cart holds an item for p,        *)
(* updateItemQuantity(owner, p, 0) succeeds and leaves the cart store as   *)
(* removeItem(owner, p) leaves it from the same state.                     *)
(***************************************************************************)
C8_Step ==
    LET u == CallerOf(request')
        p == request'.params.productId
        removed == removeFromCart(Database,
                                  Req(request'.headers, request'.params, NoParams)).db
    IN  (/\ UpdateSent(request')
         /\ request'.body.quantity = 0
         /\ ItemsFor(carts, items, u, p) # {})
        => /\ IsSuccess(response')
           /\ carts' = removed.carts
           /\ items' = removed.items

C8_RemovalShortcut == [][C8_Step]_vars

(***************************************************************************)
(* C9  removeItem(owner, p) fails with NotFound when the owner has no cart *)
(* or no item for p; otherwise it deletes exactly the item for p, whatever *)
(* the product's stock or active flag, and leaves every other item and     *)
(* cart unchanged.                                                         *)
(***************************************************************************)
C9_Step ==
    LET u == CallerOf(request')
        before == ItemsFor(carts, items, u, request'.params.productId)
    IN  (request'.op = "removeFromCart" /\ Authenticated(request')) =>
          IF before = {}
          THEN /\ FailedWith(response', "NotFoundError", 404)
               /\ carts' = carts /\ items' = items
          ELSE /\ IsSuccess(response')
               /\ carts' = carts
               /\ items' = items \ before

C9_RemoveItem == [][C9_Step]_vars

(***************************************************************************)
(* C10  clearCart(owner) fails with NotFound when the owner has no cart;   *)
(* otherwise the owner's cart has no items afterwards, the Cart record is  *)
(* kept, other owners' carts are unchanged, and the returned view has no   *)
(* items, totalItems = 0 and totalPrice = 0.                               *)
(***************************************************************************)
C10_Step ==
    LET u == CallerOf(request')
    IN  (request'.op = "clearCart" /\ Authenticated(request')) =>
          IF CartFindUnique(Database, u) = {}
          THEN /\ FailedWith(response', "NotFoundError", 404)
               /\ carts' = carts /\ items' = items
          ELSE /\ IsSuccess(response')
               /\ carts' = carts
               /\ items' = items \ ItemsOfOwner(carts, items, u)
               /\ response'.cart.id \in {c.id : c \in CartFindUnique(Database, u)}
               /\ response'.cart.items = {}
               /\ response'.cart.totalItems = 0
               /\ response'.cart.totalPrice = 0

C10_ClearCart == [][C10_Step]_vars

(***************************************************************************)
(* C11  Once a product is inactive, neither addItem nor updateItemQuantity *)
(* increases the quantity of a cart item that references it; the item      *)
(* stays in the cart when the product is deactivated and getOrCreateCart   *)
(* still returns it.                                                       *)
(***************************************************************************)
C11_Step ==
    /\ \A i \in items :
          (request'.op \in {"addToCart", "updateCartItem"}
              /\ ~products[i.productId].isActive)
          => \A j \in items' : j.id = i.id => j.quantity <= i.quantity
    /\ (\E p \in Products : products[p].isActive /\ ~products'[p].isActive)
          => items' = items /\ carts' = carts
    /\ (request'.op = "getCart" /\ IsSuccess(response'))
          => \A i \in ItemsOfOwner(carts', items', CallerOf(request')) :
                ~products'[i.productId].isActive
                => \E v \in response'.cart.items :
                      /\ v.id = i.id /\ v.quantity = i.quantity
                      /\ v.product.isActive = FALSE

C11_InactiveProduct == [][C11_Step]_vars

\* An owner who holds an item of a product that was deactivated since asks
\* for one more and is refused; the item is still in the cart.
C11_Witness ==
    /\ AddHandled(request)
    /\ FailedWith(response, "BadRequestError", 400)
    /\ response.error.message = "Product is not available"
    /\ \E i \in ItemsFor(carts, items, CallerOf(request), request.body.productId) :
          ~products[i.productId].isActive

(***************************************************************************)
(* C12  No cart operation mutates the product catalog: whether it succeeds *)
(* or fails, a getOrCreateCart, addItem, updateItemQuantity, removeItem or *)
(* clearCart call leaves every product's stock, price and isActive as they *)
(* were.                                                                   *)
(***************************************************************************)
C12_Step == request'.op \in CartOps => products' = products

C12_CatalogFrame == [][C12_Step]_vars

\* A successful add that inserted an item holding the whole stock; the stock
\* is still what it was.
C12_Witness ==
    /\ AddHandled(request) /\ IsSuccess(response)
    /\ \E i \in ItemsFor(carts, items, CallerOf(request), request.body.productId) :
          /\ i.id = nextItemId - 1
          /\ i.quantity = request.body.quantity
          /\ i.quantity = MaxStock
          /\ products[i.productId].stock = MaxStock

(***************************************************************************)
(* C14  Lazy cart creation: getOrCreateCart(owner) creates an empty cart   *)
(* if and only if the owner has none and never changes an item; with the   *)
(* operations run one at a time every owner has at most one cart, and      *)
(* repeated getOrCreateCart calls return the same cart id.                 *)
(***************************************************************************)
C14_Step ==
    /\ \A u \in Users : Cardinality({c \in carts' : c.userId = u}) <= 1
    /\ request'.op \in CartOps => carts \subseteq carts'
    /\ (request'.op = "getCart" /\ Authenticated(request')) =>
          LET u == CallerOf(request')
              mine == {c \in carts : c.userId = u}
          IN  /\ IsSuccess(response')
              /\ items' = items
              /\ IF mine = {}
                 THEN /\ Cardinality(carts' \ carts) = 1
                      /\ \A c \in carts' \ carts :
                            /\ c.userId = u
                            /\ response'.cart.id = c.id
                            /\ response'.cart.items = {}
                            /\ \A i \in items' : i.cartId # c.id
                 ELSE /\ carts' = carts
                      /\ \A c \in mine : response'.cart.id = c.id

C14_LazyCart == [][C14_Step]_vars

\* A read of a cart that already holds items, after a later cart was created
\* for the other owner: the read returns the owner's own, older cart.
C14_Witness ==
    /\ request.op = "getCart" /\ Authenticated(request) /\ IsSuccess(response)
    /\ response.cart.id < nextCartId - 1
    /\ response.cart.items # {}
    /\ Cardinality(carts) = 2

(***************************************************************************)
(* C15  Every stored CartItem has an integer quantity >= 1 in every        *)
(* reachable state.                                                        *)
(***************************************************************************)
C15_PositiveQuantity == \A i \in items : i.quantity \in Nat /\ i.quantity >= 1

\* Requests for quantity 0 were sent (the last one an update of an item the
\* owner holds) and the store holds items.
C15_Witness ==
    /\ UpdateSent(request)
    /\ request.body.quantity = 0
    /\ ItemsFor(carts, items, CallerOf(request), request.params.productId) # {}

(***************************************************************************)
(* C13  Every cart request without a valid caller identity (missing        *)
(* Authorization header, non-Bearer format, token that fails verification, *)
(* token of a user that no longer exists or is deactivated) ends with      *)
(* Unauthorized before any cart operation runs: no cart data is returned   *)
(* and no Cart or CartItem is created, changed or deleted.                 *)
(***************************************************************************)
\* The headers carry a verifiable Bearer token of an existing, active user.
ValidIdentity(headers) ==
    /\ "authorization" \in DOMAIN headers
    /\ headers.authorization.scheme = "Bearer"
    /\ headers.authorization.token.kind = "valid"
    /\ headers.authorization.token.userId \in DOMAIN users
    /\ users[headers.authorization.token.userId].isActive

C13_Step ==
    (request'.op \in CartOps /\ ~ValidIdentity(request'.headers))
    => /\ FailedWith(response', "UnauthorizedError", 401)
       /\ "cart" \notin DOMAIN response'
       /\ carts' = carts
       /\ items' = items

C13_Unauthorized == [][C13_Step]_vars

\* An add-item request with the token of an account that was deactivated
\* after it had filled its cart.
C13_Witness ==
    /\ request.op = "addToCart"
    /\ "authorization" \in DOMAIN request.headers
    /\ request.headers.authorization.token.kind = "valid"
    /\ LET u == request.headers.authorization.token.userId
       IN  /\ u \in DOMAIN users
           /\ ~users[u].isActive
           /\ ItemsOfOwner(carts, items, u) # {}
    /\ FailedWith(response, "UnauthorizedError", 401)
    /\ response.error.message = "Account is deactivated"

(***************************************************************************)
(* C18  Totals are never cached: after a product's price has changed, the  *)
(* next getOrCreateCart returns the item subtotal and the cart totalPrice  *)
(* computed from the new price; no price, subtotal or total is stored on   *)
(* the Cart or CartItem records.                                           *)
(***************************************************************************)
\* The amount a set of items is worth at the prices of a product table.
RECURSIVE AmountAt(_, _)
AmountAt(its, prods) ==
    IF its = {} THEN 0
    ELSE LET i == CHOOSE x \in its : TRUE
         IN  prods[i.productId].price * i.quantity + AmountAt(its \ {i}, prods)

C18_Step ==
    /\ \A c \in carts' : DOMAIN c = {"id", "userId"}
    /\ \A i \in items' : DOMAIN i = {"cartId", "id", "productId", "quantity"}
    /\ (request'.op = "getCart" /\ IsSuccess(response')) =>
          LET view == response'.cart
              mine == ItemsOfOwner(carts', items', view.userId)
          IN  /\ \A i \in mine :
                    \E v \in view.items :
                       /\ v.id = i.id
                       /\ v.product.price = products'[i.productId].price
                       /\ v.subtotal = products'[i.productId].price * i.quantity
              /\ Cardinality(view.items) = Cardinality(mine)
              /\ view.totalPrice = NearestCent(AmountAt(mine, products'))

C18_NoCachedTotals == [][C18_Step]_vars

\* A read right after a price change (the request before it set the price
\* the view shows, which is not the price the cart was filled at).
C18_Witness ==
    /\ request.op = "getCart" /\ IsSuccess(response)
    /\ products[1].price # InitialPrice[1]
    /\ \E v \in response.cart.items :
          /\ v.productId = 1
          /\ v.quantity = MaxStock
          /\ v.product.price = products[1].price
          /\ v.subtotal = products[1].price * MaxStock
    /\ response.cart.totalPrice = NearestCent(products[1].price * MaxStock)

(***************************************************************************)
(* C19  Remaining-increment error: whenever addItem fails because an       *)
(* existing item's quantity e plus the requested quantity q exceeds the    *)
(* stock s, the error reports the remaining increment s - e; the           *)
(* absolute-stock message is produced only when the owner has no existing  *)
(* item for that product.                                                  *)
(***************************************************************************)
\* An add-item step on an active product with stock left.
AddOnStockedProduct ==
    /\ AddHandled(request')
    /\ request'.body.productId \in DOMAIN products
    /\ products[request'.body.productId].isActive
    /\ products[request'.body.productId].stock >= 1

C19_Step ==
    LET p == request'.body.productId
        q == request'.body.quantity
        s == products[p].stock
        before == ItemsFor(carts, items, CallerOf(request'), p)
    IN  AddOnStockedProduct =>
          /\ \A e \in before :
                e.quantity + q > s =>
                   /\ FailedWith(response', "BadRequestError", 400)
                   /\ response'.error.message = "Cannot add Q more. Only N available"
                   /\ response'.error.args = <<q, s - e.quantity>>
          /\ (~IsSuccess(response')
                 /\ response'.error.message = "Only N items available")
                => before = {}

C19_RemainingIncrement == [][C19_Step]_vars

\* C19 as amended: when e + q exceeds the stock s while q itself does not
\* (q <= s < e + q), the error reports the remaining increment s - e; when q
\* alone exceeds s, the error reports the absolute stock s, whether or not
\* the owner holds an item for that product.
C19_AmendedStep ==
    LET p == request'.body.productId
        q == request'.body.quantity
        s == products[p].stock
        before == ItemsFor(carts, items, CallerOf(request'), p)
    IN  AddOnStockedProduct =>
          /\ q > s =>
                /\ FailedWith(response', "BadRequestError", 400)
                /\ response'.error.message = "Only N items available"
                /\ response'.error.args = <<s>>
          /\ \A e \in before :
                (q <= s /\ e.quantity + q > s) =>
                   /\ FailedWith(response', "BadRequestError", 400)
                   /\ response'.error.message = "Cannot add Q more. Only N available"
                   /\ response'.error.args = <<q, s - e.quantity>>
          /\ (~IsSuccess(response')
                 /\ response'.error.message = "Cannot add Q more. Only N available")
                => \E e \in before : q <= s /\ e.quantity + q > s

C19_RemainingIncrementAmended == [][C19_AmendedStep]_vars

\* An owner who holds one unit asks for one more than the stock: the error
\* names the absolute stock although an item exists.
C19_Witness ==
    /\ AddHandled(request)
    /\ FailedWith(response, "BadRequestError", 400)
    /\ response.error.message = "Only N items available"
    /\ response.error.args = <<products[request.body.productId].stock>>
    /\ ItemsFor(carts, items, CallerOf(request), request.body.productId) # {}

(***************************************************************************)
(* C20  Default quantity: an add-item request that names a valid, active,  *)
(* in-stock product and omits the quantity behaves exactly like addItem    *)
(* with quantity 1.                                                        *)
(***************************************************************************)
C20_Step ==
    LET body == request'.body
        one == addToCart(Database,
                         Req(request'.headers, NoParams,
                             [productId |-> body.productId, quantity |-> 1]))
    IN  (/\ request'.op = "addToCart"
         /\ Authenticated(request')
         /\ "quantity" \notin DOMAIN body
         /\ body.productId \in DOMAIN products
         /\ products[body.productId].isActive
         /\ products[body.productId].stock >= 1)
        => /\ response' = one.res
           /\ carts' = one.db.carts
           /\ items' = one.db.items

C20_DefaultQuantity == [][C20_Step]_vars

(***************************************************************************)
(* C16: two concurrent adds of one owner for one product                   *)
(***************************************************************************)
\* Both streams belong to one owner, both have read the same cart with its
\* one item for the product, both have passed the stock check on that read
\* and both have written (addToCart, lines 126-154).
BothWroteFromSameRead ==
    /\ procs[1].owner = procs[2].owner
    /\ \A p \in Procs : procs[p].op = "addToCart" /\ procs[p].pc = "read"
    /\ procs[1].items = procs[2].items
    /\ Cardinality({i \in procs[1].items : i.productId = RaceProduct}) = 1

\* The item both streams read, and the quantities the store holds for it now.
StaleItem == CHOOSE i \in FindItem(procs[1].items, RaceProduct) : TRUE

QuantityNow ==
    SumQuantity(ItemsFor(carts, items, procs[1].owner, RaceProduct))

\* C16: when two adds of one owner for one product interleave, both read the
\* same stale existing quantity and both pass the stock check, the resulting
\* cart quantity for that owner and product exceeds the product's stock.
C16_RaceExceedsStock ==
    BothWroteFromSameRead => QuantityNow > products[RaceProduct].stock

\* C16, amended: each stream writes the absolute quantity it computed from
\* the stale read, so the result is the stale quantity plus the quantity of
\* one of the two calls: it never exceeds the stock, and the other call's
\* quantity is lost.
C16_RaceLosesIncrement ==
    BothWroteFromSameRead =>
        /\ QuantityNow \in {StaleItem.quantity + procs[p].body.quantity : p \in Procs}
        /\ QuantityNow <= products[RaceProduct].stock
        /\ QuantityNow < StaleItem.quantity + procs[1].body.quantity
                                            + procs[2].body.quantity

\* Both calls read quantity 1 of a product with stock 2 and add 1: the sum of
\* the three would exceed the stock, the store holds 2.
C16_Witness ==
    /\ BothWroteFromSameRead
    /\ StaleItem.quantity + procs[1].body.quantity + procs[2].body.quantity
           > products[RaceProduct].stock
    /\ QuantityNow = StaleItem.quantity + procs[1].body.quantity
    /\ response.op = "addToCart"
    /\ IsSuccess(response)

(***************************************************************************)
(* C17: carts of different owners                                          *)
(***************************************************************************)
DifferentOwners == procs[1].owner # procs[2].owner

\* The owner whose request was answered last.
LastOwner == CHOOSE u \in Users : request.headers = BearerOf(u)

\* The rows the store holds for an owner.
CartsOfOwner(cs, u) == {c \in cs : c.userId = u}

\* A stored cart and a response without the ids the store assigns to Cart
\* and CartItem rows.
RowsUpToIds(cs, its, u) ==
    <<Cardinality(CartsOfOwner(cs, u)),
      {<<i.productId, i.quantity>> : i \in ItemsOfOwner(cs, its, u)}>>

ResponseUpToIds(r) ==
    IF IsSuccess(r)
    THEN <<r.op, r.status, r.message, r.cart.userId, r.cart.totalItems,
           r.cart.totalPrice,
           {<<v.productId, v.quantity, v.subtotal, v.product>> : v \in r.cart.items}>>
    ELSE <<r>>

\* C17: for any interleaving of the store steps of two different owners'
\* operations, each returned view and each owner's final cart state are the
\* same as when that owner's operations run alone in the same order.
C17_OwnersIndependent ==
    DifferentOwners =>
        /\ request.op \in CartOps => response = alone[LastOwner].res
        /\ \A p \in Procs : procs[p].pc = "idle" =>
               /\ CartsOfOwner(carts, procs[p].owner) = alone[procs[p].owner].carts
               /\ ItemsOfOwner(carts, items, procs[p].owner)
                      = alone[procs[p].owner].items

\* C17, amended: the same, up to the ids of the Cart and CartItem rows, which
\* the store draws from one sequence for all owners.
C17_OwnersIndependentUpToIds ==
    DifferentOwners =>
        /\ request.op \in CartOps =>
               ResponseUpToIds(response) = ResponseUpToIds(alone[LastOwner].res)
        /\ \A p \in Procs : procs[p].pc = "idle" =>
               RowsUpToIds(carts, items, procs[p].owner)
                   = RowsUpToIds(alone[procs[p].owner].carts,
                                 alone[procs[p].owner].items, procs[p].owner)

\* An owner's add is answered with its cart while the other owner's add has
\* written and not yet answered; the ids in the view are not those of the run
\* alone.
C17_Witness ==
    /\ DifferentOwners
    /\ request.op = "addToCart"
    /\ IsSuccess(response)
    /\ response.cart.totalItems > 0
    /\ \E p \in Procs :
           /\ procs[p].owner # LastOwner
           /\ procs[p].pc = "read"
           /\ ItemsOfOwner(carts, items, procs[p].owner) # {}
    /\ response # alone[LastOwner].res
    /\ ResponseUpToIds(response) = ResponseUpToIds(alone[LastOwner].res)

(***************************************************************************)
(* C21: the mounted update, remove and clear routes                        *)
(***************************************************************************)
\* The last request is an update within stock, a removal or a clear, sent by
\* an authenticated owner whose cart holds the product (for a clear: an item).
MountedRouteCase(r, cs, its, prods) ==
    /\ r.op \in {"updateCartItem", "removeFromCart", "clearCart"}
    /\ Authenticated(r)
    /\ IF r.op = "clearCart"
       THEN ItemsOfOwner(cs, its, CallerOf(r)) # {}
       ELSE ItemsFor(cs, its, CallerOf(r), r.params.productId) # {}
    /\ r.op = "updateCartItem" =>
          /\ validateQuantityUpdate(r.body) = <<>>
          /\ r.body.quantity <= prods[r.params.productId].stock

\* C21: through the routes as mounted, an authenticated owner whose cart
\* contains product p can update p's quantity within stock, remove p and
\* clear the cart; such a request is never rejected with 'Invalid user ID'.
C21_Step ==
    MountedRouteCase(request', carts, items, products)
        => /\ IsSuccess(response')
           /\ ~(/\ FailedWith(response', "ValidationError", 400)
                /\ response'.error.message = "Invalid user ID")

C21_MountedRoutesUsable == [][C21_Step]_vars

(***************************************************************************)
(* C22: the merge as one read-modify-write                                 *)
(***************************************************************************)
\* The rows for the product in the cart as stream p read it.
ReadRows(p) == {i \in procs[p].items : i.productId = RaceProduct}

\* Both streams belong to one owner, each has read the owner's one item for
\* the product, passed the stock check and written; what is left of each call
\* is the final read, answered 201.
BothMerged ==
    /\ procs[1].owner = procs[2].owner
    /\ \A p \in Procs : /\ procs[p].op = "addToCart"
                        /\ procs[p].pc = "read"
                        /\ Cardinality(ReadRows(p)) = 1

\* The quantity stream p read.
ReadQuantity(p) == SumQuantity(ReadRows(p))

\* The quantity before both calls: the earlier of the two reads.
QuantityBefore ==
    IF ReadQuantity(1) <= ReadQuantity(2) THEN ReadQuantity(1) ELSE ReadQuantity(2)

\* C22: the merge of addItem is atomic per (owner, product): when two
\* concurrent adds with increments q1 and q2 both succeed, the stored
\* quantity is the quantity before both calls plus q1 plus q2.
C22_AtomicMerge ==
    BothMerged =>
        QuantityNow = QuantityBefore + procs[1].body.quantity
                                     + procs[2].body.quantity

(***************************************************************************)
(* C23: uniqueness under concurrent first adds                             *)
(***************************************************************************)
\* C23: with a store that accepts duplicate (cartId, productId) rows, two
\* concurrent adds of one owner for a product not yet in the cart never leave
\* two items for that product in the cart.
C23_EngineUniqueness ==
    procs[1].owner = procs[2].owner =>
        \A c \in carts :
            Cardinality({i \in items : i.cartId = c.id /\ i.productId = RaceProduct}) <= 1

(***************************************************************************)
(* C24: one cart per owner under concurrent first access                   *)
(***************************************************************************)
\* Stream p found no cart for its owner and is about to create one.
FirstAccess(p) == procs[p].pc \in {"createCart", "getCreate"}

\* C24: when two first-access operations for an owner without a cart run
\* concurrently, exactly one Cart record exists for the owner afterwards and
\* both requests complete successfully.
C24_Step ==
    \A p \in Procs :
        (FirstAccess(p) /\ procs'[p] # procs[p]) =>
            /\ Cardinality(CartsOfOwner(carts', procs[p].owner)) = 1
            /\ procs'[p].pc = "idle" => IsSuccess(response')

C24_OneCartFirstAccess == [][C24_Step]_vars

(***************************************************************************)
(* C25: the returned view and a fresh read                                 *)
(***************************************************************************)
\* What getCart answers to the sender of request r on the store db.
FreshRead(db, r) == getCart(db, Req(r.headers, NoParams, NoParams)).res

\* C25: the CartView returned by a successful add, update or removal equals
\* the CartView that getOrCreateCart returns immediately afterwards for the
\* same owner, product snapshots (id, title, price, thumbnail, stock,
\* isActive) included.
C25_Step ==
    (/\ request'.op \in {"addToCart", "updateCartItem", "removeFromCart"}
     /\ IsSuccess(response'))
        => response'.cart = FreshRead(Database', request').cart

C25_ViewEqualsFreshRead == [][C25_Step]_vars

(***************************************************************************)
(* C26: the remaining quantity of a refused merge                          *)
(***************************************************************************)
\* C26: the 'remaining available' number reported by a failed merge of
\* addItem is never negative, also after updateProduct has lowered the stock
\* below the quantity held in a cart.
C26_Step ==
    (/\ AddHandled(request')
     /\ FailedWith(response', "BadRequestError", 400)
     /\ response'.error.message = "Cannot add Q more. Only N available")
        => response'.error.args[2] >= 0

C26_RemainingNotNegative == [][C26_Step]_vars

(***************************************************************************)
(* C27: the validators' quantity limit and the store                       *)
(***************************************************************************)
\* C27: through the validated routes, which accept only quantities 1..100,
\* after any sequence of add-item and update-quantity requests every stored
\* CartItem quantity is at most 100.
C27_QuantityCap == \A i \in items : i.quantity <= MaxQuantity

(***************************************************************************)
(* C28: deactivation and cart access                                       *)
(***************************************************************************)
\* Account u is deactivated (or was deleted) in the given user table.
Revoked(us, u) == u \notin DOMAIN us \/ ~us[u].isActive

\* C28: once deactivateUser(u) has completed, every cart request that starts
\* afterwards with a token issued to u fails with Unauthorized and changes no
\* cart state, until activateUser(u) completes.
C28_Step ==
    \A u \in Users :
        \* a completed deactivateUser(u) leaves the account deactivated
        /\ (/\ request'.op = "deactivateUser"
            /\ request'.params.id = u
            /\ IsSuccess(response'))
               => (u \in DOMAIN users' /\ ~users'[u].isActive)
        \* only a completed activateUser(u) ends that
        /\ (Revoked(users, u) /\ ~Revoked(users', u))
               => (/\ request'.op = "activateUser"
                   /\ request'.params.id = u
                   /\ IsSuccess(response'))
        \* meanwhile the cart requests with u's token are refused
        /\ (/\ Revoked(users, u)
            /\ request'.op \in CartOps
            /\ request'.headers = BearerOf(u))
               => /\ FailedWith(response', "UnauthorizedError", 401)
                  /\ carts' = carts
                  /\ items' = items

C28_DeactivationRevokes == [][C28_Step]_vars

\* The deactivated owner of a filled cart asks for it and is refused.
C28_Witness ==
    /\ request.op = "getCart"
    /\ \E u \in Users :
          /\ request.headers = BearerOf(u)
          /\ u \in DOMAIN users
          /\ ~users[u].isActive
          /\ ItemsOfOwner(carts, items, u) # {}
    /\ FailedWith(response, "UnauthorizedError", 401)
    /\ response.error.message = "Account is deactivated"

(***************************************************************************)
(* C29: the last administrator                                             *)
(***************************************************************************)
ActiveAdmins(us) == {u \in DOMAIN us : us[u].isActive /\ us[u].role = "ADMIN"}

\* C29: if an active ADMIN account exists, then after any interleaving of
\* updateUserRole, deactivateUser and deleteUser requests, each issued by a
\* caller who was an active ADMIN when authenticated, an active ADMIN account
\* still exists.
C29_Step == ActiveAdmins(users) # {} => ActiveAdmins(users') # {}

C29_NoAdminLockOut == [][C29_Step]_vars

====
